---- MODULE Spec2Model ----
(***************************************************************************)
(* Model of gym_vertical_landing/envs/vertical_landing_env.py:             *)
(* VerticalLandingEnv (reset, step, _destroy, _seed) and ContactDetector   *)
(* (BeginContact, EndContact).                                             *)
(*                                                                         *)
(* Box2D is outside the repository.  world.Step is modelled as a black     *)
(* box that (a) fires any sequence of matched contact callbacks and (b)    *)
(* leaves the lander in a nondeterministically chosen pose.  The callbacks *)
(* are the handlers BeginContact / EndContact, fired while pc = "world".   *)
(*                                                                         *)
(* Floats are fixed-point integers:                                        *)
(*   action components   in units of 1/ActDen                              *)
(*   gimbal              in units of 1/GimbalScale rad                     *)
(*   throttle            in units of 1/ThrottleScale                       *)
(*   power               in units of 1/PowerScale                          *)
(*   reward, shaping, x_distance, y_distance, speed, angle, vel_a          *)
(*                       in units of 1/RewardScale                         *)
(***************************************************************************)
EXTENDS Integers, Sequences, FiniteSets, TLC

VARIABLES
    continuous,      \* self.continuous
    pc,              \* "init": constructor about to call reset (line 135)
                     \* "idle": no call in progress
                     \* "world": inside world.Step of a step() call (line 441)
    call,            \* the call in progress or last completed: "reset" / "step"
    action,          \* the action argument of that step() call
    built,           \* number of scenes built so far (identity of Box2D objects)
    world,           \* self.world: bodies, joints, contactListener
    contacts,        \* the world's live contacts (begun, not yet ended)
    events,          \* callbacks fired so far inside the current world.Step
    water, ship, containers, lander, legs,   \* the env's references to bodies
    ground_contact,  \* legs[i].ground_contact
    game_over,       \* self.game_over
    gimbal, throttle, power, force_dir,
    landed_ticks, prev_shaping, stepnumber,
    phys,            \* lander pose / velocity / joint angles after world.Step
    result,          \* (reward, done) returned by the last completed step()
    np_random,       \* self.np_random: the env's seeded generator
    spawn,           \* initial lander state drawn by the last reset()
    seedlog,         \* per seed: the spawn of the first reset() after _seed(seed)
    hist             \* history of the current episode: whether a step() of it
                     \* has returned done = true, and the shaping computed by
                     \* its latest step() that returned done = false

vars == <<continuous, pc, call, action, built, world, contacts, events,
          water, ship, containers, lander, legs, ground_contact, game_over,
          gimbal, throttle, power, force_dir, landed_ticks, prev_shaping,
          stepnumber, phys, result, np_random, spawn, seedlog, hist>>

----------------------------------------------------------------------------
(* Program constants and the fixed-point scales derived from them.         *)

FPS == 60

\* action components are multiples of 1/ActDen, so that 0.5 (the thruster
\* threshold of lines 406-409) is representable
ActDen == 2

\* 0.15 / FPS per unit of action[0]  ==>  one action unit moves gimbal by 1
GimbalScale == (FPS * ActDen * 100) \div 15
\* 0.5 / FPS per unit of action[1] and 0.01 per discrete step
ThrottleScale == FPS * ActDen * 10
PowerScale == 10 * ThrottleScale
\* 0.1 / FPS (fuel) and 0.25 / FPS (hover penalty) are integers in this scale
RewardScale == 20 * FPS

gimbal_threshold == (4 * GimbalScale) \div 10
min_throttle == (4 * PowerScale) \div 10

Abs(x) == IF x < 0 THEN -x ELSE x
Max(a, b) == IF a >= b THEN a ELSE b

\* np.clip(x, lo, hi)
Clip(x, lo, hi) == IF x < lo THEN lo ELSE IF x > hi THEN hi ELSE x

\* floor of the square root, by Newton iteration
RECURSIVE SqrtIter(_, _)
SqrtIter(n, r) ==
    LET r2 == (r + n \div r) \div 2
    IN  IF r2 >= r THEN r ELSE SqrtIter(n, r2)

ISqrt(n) == IF n <= 0 THEN 0 ELSE SqrtIter(n, n)

\* np.linalg.norm((a, b))
Norm(a, b) == ISqrt(a * a + b * b)

----------------------------------------------------------------------------
(* Box2D world: bodies, joints, contact listener.                          *)

StaticRoles == {"water", "ship", "container0", "container1"}
DynamicRoles == {"lander", "leg0", "leg1"}

NoBody == [gen |-> 0, role |-> "none"]
Body(g, r) == [gen |-> g, role |-> r]

EmptyWorld == [bodies |-> {}, joints |-> {}, contactListener |-> 0]

\* b2World.DestroyBody: the body goes, and with it every joint attached to it
DestroyBody(w, b) ==
    [w EXCEPT !.bodies = @ \ {b},
              !.joints = {j \in @ : j.bodyA # b /\ j.bodyB # b}]

CreateBody(w, b) == [w EXCEPT !.bodies = @ \cup {b}]

CreateJoint(w, kind, a, b) ==
    [w EXCEPT !.joints = @ \cup {[kind |-> kind, bodyA |-> a, bodyB |-> b]}]

\* the env's references to scene objects
Refs == [water |-> water, ship |-> ship, containers |-> containers,
         lander |-> lander, legs |-> legs]

NoRefs == [water |-> NoBody, ship |-> NoBody, containers |-> <<>>,
           lander |-> NoBody, legs |-> <<>>]

\* _destroy without the two DestroyBody calls for the legs
DestroyKeepsLegs(w, r) ==
    IF r.water = NoBody
    THEN [world |-> w, refs |-> r]
    ELSE LET w0 == [w EXCEPT !.contactListener = 0]
             w1 == DestroyBody(w0, r.containers[1])
             w2 == DestroyBody(w1, r.containers[2])
             w3 == DestroyBody(w2, r.lander)
             w6 == DestroyBody(w3, r.ship)
             w7 == DestroyBody(w6, r.water)
         IN  [world |-> w7, refs |-> NoRefs]

\* VerticalLandingEnv._destroy, on (world, references)
Destroy(w, r) ==
    IF r.water = NoBody
    THEN [world |-> w, refs |-> r]
    ELSE LET w0 == [w EXCEPT !.contactListener = 0]
             w1 == DestroyBody(w0, r.containers[1])
             w2 == DestroyBody(w1, r.containers[2])
             w3 == DestroyBody(w2, r.lander)
             w4 == DestroyBody(w3, r.legs[1])
             w5 == DestroyBody(w4, r.legs[2])
             w6 == DestroyBody(w5, r.ship)
             w7 == DestroyBody(w6, r.water)
         IN  [world |-> w7, refs |-> NoRefs]

\* the scene construction of reset(): lines 273-274 and 289-386.
\* `old` is self.legs as _destroy left it; reset() appends to it.
BuildScene(w, g, old) ==
    LET wl == [w EXCEPT !.contactListener = g]
        w1 == CreateBody(wl, Body(g, "water"))
        w2 == CreateBody(w1, Body(g, "ship"))
        w3 == CreateBody(w2, Body(g, "container0"))
        w4 == CreateBody(w3, Body(g, "container1"))
        w5 == CreateBody(w4, Body(g, "lander"))
        w6 == CreateBody(w5, Body(g, "leg0"))
        w7 == CreateJoint(w6, "revolute", Body(g, "lander"), Body(g, "leg0"))
        w8 == CreateJoint(w7, "distance", Body(g, "lander"), Body(g, "leg0"))
        w9 == CreateBody(w8, Body(g, "leg1"))
        w10 == CreateJoint(w9, "revolute", Body(g, "lander"), Body(g, "leg1"))
        w11 == CreateJoint(w10, "distance", Body(g, "lander"), Body(g, "leg1"))
    IN  [world |-> w11,
         refs |-> [water |-> Body(g, "water"), ship |-> Body(g, "ship"),
                   containers |-> <<Body(g, "container0"), Body(g, "container1")>>,
                   lander |-> Body(g, "lander"),
                   legs |-> old \o <<Body(g, "leg0"), Body(g, "leg1")>>]]

----------------------------------------------------------------------------
(* Control mapping: step(), lines 401-426.                                 *)

\* lines 403-409.  np.clip(action, -1, 1) returns a new array and the
\* result is dropped, so the raw action is what is used.
ContinuousMap(a, g, t) ==
    [gimbal |-> g + a[1],
     throttle |-> t + a[2] * (ThrottleScale \div (2 * FPS * ActDen)),
     force_dir |-> IF 2 * a[3] > ActDen THEN 1
                   ELSE IF 2 * a[3] < -ActDen THEN -1 ELSE 0]

\* lines 411-422
DiscreteMap(a, g, t) ==
    [gimbal |-> IF a = 0 THEN g + GimbalScale \div 100
                ELSE IF a = 1 THEN g - GimbalScale \div 100 ELSE g,
     throttle |-> IF a = 2 THEN t + ThrottleScale \div 100
                  ELSE IF a = 3 THEN t - ThrottleScale \div 100 ELSE t,
     force_dir |-> IF a = 4 THEN -1 ELSE IF a = 5 THEN 1 ELSE 0]

\* line 426
Power(t) ==
    IF t = 0 THEN 0
    ELSE min_throttle + (t * (PowerScale - min_throttle)) \div ThrottleScale

\* the throttle clamp alone
ClipThrottleOnly(m) == [m EXCEPT !.throttle = Clip(@, 0, ThrottleScale)]

\* lines 424-425
ClipControls(m) ==
    [m EXCEPT !.gimbal = Clip(@, -gimbal_threshold, gimbal_threshold),
              !.throttle = Clip(@, 0, ThrottleScale)]

\* lines 401-426
MapControl(cont, a, g, t) ==
    LET m == ClipControls(IF cont THEN ContinuousMap(a, g, t)
                          ELSE DiscreteMap(a, g, t))
    IN  [gimbal |-> m.gimbal, throttle |-> m.throttle,
         force_dir |-> m.force_dir, power |-> Power(m.throttle)]

----------------------------------------------------------------------------
(* Reward and termination: step(), lines 442-500.                          *)

NoShaping == [isNone |-> TRUE, value |-> 0]
Shaping(v) == [isNone |-> FALSE, value |-> v]

NoResult == [returned |-> FALSE, reward |-> 0, done |-> FALSE]

\* an episode none of whose step() calls has returned yet
NoHistory == [done |-> FALSE, shaping |-> NoShaping]

\* line 465: distance = norm((3 * x_distance, y_distance))
Distance(p) == Norm(3 * p.x, p.y)

\* line 467
GroundContact(gc) == gc[0] \/ gc[1]

\* line 468
BrokenLeg(p, gc) == (p.joint0 < 0 \/ p.joint1 > 0) /\ GroundContact(gc)

\* line 469: |pos.x - W/2| > W/2 or pos.y > H, in terms of x_distance and
\* y_distance (lines 445-446): |x_distance| > 1/2 or y_distance > 1
Outside(p) == Abs(p.x) > RewardScale \div 2 \/ p.y > RewardScale

\* line 470: 0.1 * (0 * power + abs(force_dir)) / FPS
FuelCost(fd) == (RewardScale * Abs(fd)) \div (10 * FPS)

\* line 471
Landed(p, gc) == gc[0] /\ gc[1] /\ p.speed < RewardScale \div 10

\* lines 482-483
ShapingValue(p, gc) ==
    -((Distance(p) + p.speed + (Abs(p.angle) * Abs(p.angle)) \div RewardScale) \div 2)
    + (RewardScale \div 10) * ((IF gc[0] THEN 1 ELSE 0) + (IF gc[1] THEN 1 ELSE 0))

\* line 496: max(-1, 0 - 2 * (speed + distance + abs(angle) + abs(vel_a)))
TerminalTerm(p) ==
    Max(-RewardScale, 0 - 2 * (p.speed + Distance(p) + Abs(p.angle) + Abs(p.vel_a)))

\* a clamp from above only
ClipRewardAbove(r) == IF r > RewardScale THEN RewardScale ELSE r

\* line 500
ClipReward(r) == Clip(r, -RewardScale, RewardScale)

\* a landed lander is never a catastrophe
CatastropheUnlessLanded(p, gc, go) ==
    go \/ ((Outside(p) \/ BrokenLeg(p, gc)) /\ ~Landed(p, gc))

\* lines 475-476, 478: the value of game_over that line 478 tests
Catastrophe(p, gc, go) == go \/ Outside(p) \/ BrokenLeg(p, gc)

\* success one tick early
SuccessEarly(lt) == lt = FPS - 1

\* line 491
Success(lt) == lt = FPS

\* the reward code with the new shaping stored before the subtraction
RewardStepStoresFirst(p, gc, go, fd, lt, ps) ==
    LET go2 == Catastrophe(p, gc, go)
        r0 == -FuelCost(fd)
        shaping == ShapingValue(p, gc)
        stored == Shaping(shaping)
        r1 == r0 + shaping - stored.value
        lt2 == IF Landed(p, gc) THEN lt + 1 ELSE 0
        success == Success(lt2)
        done == go2 \/ success
        r2 == IF go2 THEN r0 ELSE IF success THEN RewardScale ELSE r1
        r3 == IF done THEN r2 + TerminalTerm(p)
              ELSE IF ~GroundContact(gc) THEN r2 - RewardScale \div (4 * FPS)
              ELSE r2
    IN  [game_over |-> go2,
         landed_ticks |-> IF go2 THEN lt ELSE lt2,
         prev_shaping |-> IF go2 THEN ps ELSE stored,
         reward |-> ClipReward(r3),
         done |-> done]

\* lines 472-500, on the env fields the reward code reads and writes:
\* p pose after world.Step, gc ground-contact flags, go game_over,
\* fd force_dir, lt landed_ticks, ps prev_shaping
RewardStep(p, gc, go, fd, lt, ps) ==
    LET go2 == Catastrophe(p, gc, go)
        r0 == -FuelCost(fd)
        shaping == ShapingValue(p, gc)
        r1 == IF ps.isNone THEN r0 ELSE r0 + shaping - ps.value
        lt2 == IF Landed(p, gc) THEN lt + 1 ELSE 0
        success == Success(lt2)
        done == go2 \/ success
        r2 == IF go2 THEN r0 ELSE IF success THEN RewardScale ELSE r1
        r3 == IF done THEN r2 + TerminalTerm(p)
              ELSE IF ~GroundContact(gc) THEN r2 - RewardScale \div (4 * FPS)
              ELSE r2
    IN  [game_over |-> go2,
         landed_ticks |-> IF go2 THEN lt ELSE lt2,
         prev_shaping |-> IF go2 THEN ps ELSE Shaping(shaping),
         reward |-> ClipReward(r3),
         done |-> done]

----------------------------------------------------------------------------
(* Random sources.                                                         *)

\* self.np_random.uniform(0, initial_random) (line 389), in tenths: the
\* draw is a function of the generator's seed and of how many draws it has
\* made.  Seed 0 stands for the seed _seed(None) takes from the OS.
Uniform(rng) == (2 * rng.seed + 3 * rng.pos) % 5

\* lines 325, 388-392: the lander's initial state.  gx is the value of
\* np.random.uniform(-0.3, 0.3) in tenths, gw that of np.random.uniform(-1, 1)
\* in tenths; both come from numpy's process-wide generator, which _seed
\* does not touch.
Spawn(rng, gx, gw) ==
    [initial_x |-> gx, vx |-> -(Uniform(rng) * gx), angularVelocity |-> 14 * gw]

\* the lander right after creation: x_distance = gx / 10, y = 0.95 * H,
\* speed >= start_speed / start_speed, angle 0
StartPhys(gx, gw) ==
    [x |-> (gx * RewardScale) \div 10, y |-> (947 * RewardScale) \div 1000,
     speed |-> RewardScale, angle |-> 0,
     vel_a |-> (14 * gw * RewardScale) \div 100, joint0 |-> 0, joint1 |-> 0]

----------------------------------------------------------------------------
(* Operations.                                                             *)

\* a contact between two bodies of the current scene: the set of the two
\* bodies contact.fixtureA.body, contact.fixtureB.body
Contact(r1, r2) == {Body(built, r1), Body(built, r2)}

\* Python's legs[i], i in 0..1
Leg(i) == legs[i + 1]

\* Zero action of the step() call that ends reset(): lines 395-398
ResetAction(cont) == IF cont THEN <<0, 0, 0>> ELSE 6

\* VerticalLandingEnv._seed(seed), line 155-157
Seed(s) ==
    /\ pc = "idle"
    /\ np_random' = [seed |-> s, pos |-> 0]
    /\ UNCHANGED <<continuous, pc, call, action, built, world, contacts, events,
                   water, ship, containers, lander, legs, ground_contact,
                   game_over, gimbal, throttle, power, force_dir, landed_ticks,
                   prev_shaping, stepnumber, phys, result, spawn, seedlog,
                   hist>>

\* VerticalLandingEnv.reset(), lines 271-398, up to and including the part
\* of its closing step() call that precedes world.Step; gx, gw are the two
\* draws from numpy's process-wide generator
Reset(gx, gw) ==
    /\ pc \in {"init", "idle"}
    /\ LET d == Destroy(world, Refs)
           b == BuildScene(d.world, built + 1, d.refs.legs)
           a == ResetAction(continuous)
           m == MapControl(continuous, a, 0, 0)
           sp == Spawn(np_random, gx, gw)
       IN  /\ world' = b.world
           /\ water' = b.refs.water
           /\ ship' = b.refs.ship
           /\ containers' = b.refs.containers
           /\ lander' = b.refs.lander
           /\ legs' = b.refs.legs
           /\ contacts' = {c \in contacts : c \subseteq d.world.bodies}
           /\ action' = a
           /\ gimbal' = m.gimbal
           /\ throttle' = m.throttle
           /\ force_dir' = m.force_dir
           /\ power' = m.power
           /\ spawn' = sp
           /\ seedlog' = IF np_random.seed \in DOMAIN seedlog
                            /\ np_random.pos = 0
                            /\ seedlog[np_random.seed] = <<>>
                         THEN [seedlog EXCEPT ![np_random.seed] = <<sp>>]
                         ELSE seedlog
    /\ built' = built + 1
    /\ ground_contact' = [i \in {0, 1} |-> FALSE]
    /\ game_over' = FALSE
    /\ landed_ticks' = 0
    /\ prev_shaping' = NoShaping
    /\ stepnumber' = 0
    /\ np_random' = [np_random EXCEPT !.pos = @ + 1]
    /\ phys' = StartPhys(gx, gw)
    /\ result' = NoResult
    /\ events' = 0
    /\ hist' = NoHistory
    /\ call' = "reset"
    /\ pc' = "world"
    /\ UNCHANGED continuous

\* step(action), lines 400-441: control mapping, forces, entry into world.Step
StepBegin(a) ==
    /\ pc = "idle"
    /\ LET m == MapControl(continuous, a, gimbal, throttle)
       IN  /\ gimbal' = m.gimbal
           /\ throttle' = m.throttle
           /\ force_dir' = m.force_dir
           /\ power' = m.power
    /\ action' = a
    /\ result' = NoResult
    /\ events' = 0
    /\ call' = "step"
    /\ pc' = "world"
    /\ UNCHANGED <<continuous, built, world, contacts, water, ship, containers,
                   lander, legs, ground_contact, game_over, landed_ticks,
                   prev_shaping, stepnumber, phys, np_random, spawn, seedlog,
                   hist>>

\* lines 56-59
Fatal(c) ==
    \/ water \in c
    \/ lander \in c
    \/ containers[1] \in c
    \/ containers[2] \in c

\* any leg in the contact sets both flags
TouchBothLegs(c, gc) ==
    [i \in {0, 1} |-> IF Leg(0) \in c \/ Leg(1) \in c THEN TRUE ELSE gc[i]]

\* lines 62-64
TouchLegs(c, gc) == [i \in {0, 1} |-> IF Leg(i) \in c THEN TRUE ELSE gc[i]]

\* lines 67-69
ReleaseLegs(c, gc) == [i \in {0, 1} |-> IF Leg(i) \in c THEN FALSE ELSE gc[i]]

\* lines 56-64, on (game_over, ground-contact flags)
OnBegin(c, go, gc) ==
    IF Fatal(c)
    THEN [game_over |-> TRUE, ground_contact |-> gc]
    ELSE [game_over |-> go, ground_contact |-> TouchLegs(c, gc)]

\* the end of a fatal contact clears game_over
OnEndClears(c, go, gc) ==
    [game_over |-> IF Fatal(c) THEN FALSE ELSE go,
     ground_contact |-> ReleaseLegs(c, gc)]

\* lines 66-69, on (game_over, ground-contact flags)
OnEnd(c, go, gc) ==
    [game_over |-> go, ground_contact |-> ReleaseLegs(c, gc)]

\* ContactDetector.BeginContact(contact), called by world.Step
BeginContact(c) ==
    /\ pc = "world"
    /\ world.contactListener # 0
    /\ c \subseteq world.bodies
    /\ c \notin contacts
    /\ contacts' = contacts \cup {c}
    /\ events' = events + 1
    /\ LET o == OnBegin(c, game_over, ground_contact)
       IN  /\ game_over' = o.game_over
           /\ ground_contact' = o.ground_contact
    /\ UNCHANGED <<continuous, pc, call, action, built, world, water, ship,
                   containers, lander, legs, gimbal, throttle, power, force_dir,
                   landed_ticks, prev_shaping, stepnumber, phys, result,
                   np_random, spawn, seedlog, hist>>

\* ContactDetector.EndContact(contact), called by world.Step
EndContact(c) ==
    /\ pc = "world"
    /\ world.contactListener # 0
    /\ c \in contacts
    /\ contacts' = contacts \ {c}
    /\ events' = events + 1
    /\ LET o == OnEnd(c, game_over, ground_contact)
       IN  /\ game_over' = o.game_over
           /\ ground_contact' = o.ground_contact
    /\ UNCHANGED <<continuous, pc, call, action, built, world, water, ship,
                   containers, lander, legs, gimbal, throttle, power, force_dir,
                   landed_ticks, prev_shaping, stepnumber, phys, result,
                   np_random, spawn, seedlog, hist>>

\* step(action), lines 441-505: world.Step returns leaving the lander in
\* pose p; reward, termination and the returned tuple
StepEnd(p) ==
    /\ pc = "world"
    /\ phys' = p
    /\ LET o == RewardStep(p, ground_contact, game_over, force_dir,
                           landed_ticks, prev_shaping)
       IN  /\ game_over' = o.game_over
           /\ landed_ticks' = o.landed_ticks
           /\ prev_shaping' = o.prev_shaping
           /\ result' = [returned |-> TRUE, reward |-> o.reward, done |-> o.done]
           /\ hist' = [done |-> hist.done \/ o.done,
                       shaping |-> IF o.done THEN hist.shaping
                                   ELSE Shaping(ShapingValue(p, ground_contact))]
    /\ stepnumber' = stepnumber + 1
    /\ events' = 0
    /\ pc' = "idle"
    /\ UNCHANGED <<continuous, call, action, built, world, contacts,
                   water, ship, containers, lander, legs, ground_contact,
                   gimbal, throttle, power, force_dir, np_random, spawn, seedlog>>

----------------------------------------------------------------------------
(* Bounds and input sets.                                                  *)

\* scenes built per run (the constructor's reset included)
MaxScenes == 2
\* ticks per episode in the short-episode specification
MaxSteps == 2
\* ticks per episode in the control specification
MaxControlSteps == 3
\* landing specification: ticks per episode beyond FPS, and ticks of an
\* episode that the landed-tick counter does not count
MaxSlack == 2
\* contact callbacks per world.Step
MaxEvents == 2
\* contact callbacks per world.Step in the landing specification
MaxLandingEvents == 2
\* scenes built per run in the seeding specification
MaxSeedScenes == 3
\* seeds _seed is called with: 1..MaxSeed
MaxSeed == 2

Seeds == 1 .. MaxSeed

Pose(x, y, s, a, w, j0, j1) ==
    [x |-> x, y |-> y, speed |-> s, angle |-> a, vel_a |-> w,
     joint0 |-> j0, joint1 |-> j1]

\* descending, far from the deck
Flying == Pose(0, RewardScale \div 2, RewardScale, 0, 0, 0, 0)
\* standing on the deck, off centre, nearly at rest
Standing == Pose(RewardScale \div 20, 2, RewardScale \div 20, 12, 0, 0, 0)
\* standing on the centre of the deck, nearly at rest
Centred == Pose(0, 2, RewardScale \div 40, 0, 0, 0, 0)
\* on the deck at exactly the speed limit of `landed` (0.1)
Sliding == Pose(RewardScale \div 20, 2, RewardScale \div 10, 0, 0, 0, 0)
\* past the side of the world, slow
OffSide == Pose((6 * RewardScale) \div 10, 2, 0, 0, 0, 0, 0)
\* above the top of the world
OffTop == Pose(0, RewardScale + 60, RewardScale, 0, 0, 0, 0)
\* a leg joint pushed past its limit
Broken0 == Pose(0, 2, 0, 0, 0, -1, 0)
Broken1 == Pose(0, 2, 0, 0, 0, 0, 1)
\* tumbling
Tumbling == Pose(0, RewardScale \div 2, RewardScale, RewardScale \div 2, 2 * RewardScale, 0, 0)

Poses == {Flying, Standing, Broken0}
ControlPoses == {Flying, OffTop}
LandingPoses == {Standing, Centred, Sliding, OffSide, Broken1, Tumbling}

\* continuous actions, in units of 1/ActDen: inside [-1, 1], on the
\* thruster threshold 0.5, and outside [-1, 1]
ContinuousActions ==
    {<<0, 0, 0>>, <<2, 2, 2>>, <<-2, -2, -2>>, <<1, -1, 1>>,
     <<4, 4, 0>>, <<700, 700, 4>>, <<-700, -700, -4>>}
\* discrete actions: 0..6 and the out-of-range indices -1 and 7
DiscreteActions == -1 .. 7

ActionsOf(cont) == IF cont THEN ContinuousActions ELSE DiscreteActions
ShortActions == {<<0, 0, 0>>, <<0, 0, 2>>}
LandingActions == {<<0, 0, 0>>, <<0, 0, 2>>}

GlobalDraws == {-3, 0, 3}
SpinDraws == {-10, 10}

\* the deck under each leg, a leg in the water, a leg against each container,
\* the hull on the deck
ShortPairs ==
    {<<"leg0", "ship">>, <<"leg1", "ship">>, <<"leg0", "water">>,
     <<"leg0", "container0">>, <<"leg1", "container1">>, <<"lander", "ship">>}

LandingPairs == {<<"leg0", "ship">>, <<"leg1", "ship">>}

ZeroPose == Pose(0, 0, 0, 0, 0, 0, 0)

\* the env at line 135 of __init__, about to call reset()
Construct(cont) ==
    /\ continuous = cont
    /\ pc = "init"
    /\ call = "init"
    /\ action = ResetAction(cont)
    /\ built = 0
    /\ world = EmptyWorld
    /\ contacts = {}
    /\ events = 0
    /\ water = NoBody
    /\ ship = NoBody
    /\ containers = <<>>
    /\ lander = NoBody
    /\ legs = <<>>
    /\ ground_contact = [i \in {0, 1} |-> FALSE]
    /\ game_over = FALSE
    /\ gimbal = 0
    /\ throttle = 0
    /\ power = 0
    /\ force_dir = 0
    /\ landed_ticks = 0
    /\ prev_shaping = NoShaping
    /\ stepnumber = 0
    /\ phys = ZeroPose
    /\ result = NoResult
    /\ np_random = [seed |-> 0, pos |-> 0]
    /\ spawn = Spawn([seed |-> 0, pos |-> 0], 0, 0)
    /\ seedlog = [s \in Seeds |-> <<>>]
    /\ hist = NoHistory

\* __init__ sets continuous = True (line 78)
Init == Construct(TRUE)

\* the discrete env is the same class with line 78 set to False
InitControl == \E cont \in BOOLEAN : Construct(cont)

ResetAny == built < MaxScenes /\ Reset(0, 0)

StepAny == stepnumber < MaxSteps /\ \E a \in ShortActions : StepBegin(a)

BeginAny ==
    events < MaxEvents /\ \E q \in ShortPairs : BeginContact(Contact(q[1], q[2]))

EndAny ==
    events < MaxEvents /\ \E q \in ShortPairs : EndContact(Contact(q[1], q[2]))

EndStepAny == \E p \in Poses : StepEnd(p)

Next == ResetAny \/ StepAny \/ BeginAny \/ EndAny \/ EndStepAny

Spec == Init /\ [][Next]_vars

\* Control mapping in both modes: every action, no contacts.
ResetControl == built < MaxScenes /\ Reset(0, 0)

StepControl ==
    stepnumber < MaxControlSteps /\ \E a \in ActionsOf(continuous) : StepBegin(a)

EndStepControl == \E p \in ControlPoses : StepEnd(p)

NextControl == ResetControl \/ StepControl \/ EndStepControl

SpecControl == InitControl /\ [][NextControl]_vars

\* Long episodes of the continuous env: few actions, legs touching and
\* leaving the deck, the poses that decide landing and catastrophe.
ResetLanding == pc = "init" /\ Reset(0, 0)

StepLanding ==
    /\ stepnumber < FPS + MaxSlack
    /\ stepnumber - landed_ticks < MaxSlack
    /\ \E a \in LandingActions : StepBegin(a)

BeginLanding ==
    events < MaxLandingEvents /\ \E q \in LandingPairs : BeginContact(Contact(q[1], q[2]))

EndLanding ==
    events < MaxLandingEvents /\ \E q \in LandingPairs : EndContact(Contact(q[1], q[2]))

EndStepLanding == \E p \in LandingPoses : StepEnd(p)

NextLanding ==
    ResetLanding \/ StepLanding \/ BeginLanding \/ EndLanding \/ EndStepLanding

SpecLanding == Init /\ [][NextLanding]_vars

\* Seeding: _seed, reset with every draw of the process-wide generator,
\* no-op ticks.
SeedAny == \E s \in Seeds : Seed(s)

ResetSeed ==
    built < MaxSeedScenes /\ \E gx \in GlobalDraws, gw \in SpinDraws : Reset(gx, gw)

StepSeed == stepnumber < MaxSteps /\ StepBegin(<<0, 0, 0>>)

EndStepSeed == StepEnd(Flying)

NextSeed == SeedAny \/ ResetSeed \/ StepSeed \/ EndStepSeed

SpecSeed == Init /\ [][NextSeed]_vars

----------------------------------------------------------------------------
(* Properties.                                                             *)

\* a step() call has just returned from its tick
TickEnds == pc = "world" /\ pc' = "idle"

\* a step() call made by the caller has just entered its tick
TickBegins == pc = "idle" /\ pc' = "world" /\ call' = "step"

CatastrophePrecedence ==
    [][TickEnds /\ (Outside(phys') \/ BrokenLeg(phys', ground_contact')) =>
          /\ game_over'
          /\ result'.done
          /\ landed_ticks' = landed_ticks
          /\ prev_shaping' = prev_shaping
          /\ result'.reward =
                Max(-RewardScale, -FuelCost(force_dir') + TerminalTerm(phys'))]_vars

\* C2 witness: the lander leaves the world on the tick that would have been
\* its FPS-th landed tick
CatastropheOnLastLandedTick ==
    /\ pc = "idle" /\ result.returned /\ result.done /\ game_over
    /\ Outside(phys) /\ Landed(phys, ground_contact)
    /\ landed_ticks = FPS - 1 /\ stepnumber = FPS + 1

\* C3: game_over, once true, stays true until reset() builds the next
\* scene, and reset() makes it false; a contact-begin involving water,
\* lander or a container sets it and sets no leg flag; a tick with outside or
\* brokenleg sets it.
CatastrophicFlagPersists ==
    [][/\ built' = built /\ game_over => game_over'
       /\ built' # built => ~game_over'
       /\ \A c \in contacts' \ contacts :
             Fatal(c) => game_over' /\ ground_contact' = ground_contact
       /\ TickEnds /\ (Outside(phys') \/ BrokenLeg(phys', ground_contact')) =>
             game_over']_vars

\* C3 witness: the first tick of an episode has returned; game_over was set
\* by a contact that has already ended, in a pose that is no catastrophe
FlagOutlivesContact ==
    /\ pc = "idle" /\ stepnumber = 1 /\ game_over /\ contacts = {}
    /\ ~Outside(phys) /\ ~BrokenLeg(phys, ground_contact)

\* C4 (as stated): the first touch of leg i sets its flag, and the flag is
\* cleared only by the separation of the touch that set it.
GroundContactTracksTouch ==
    [][built' = built =>
         \A i \in {0, 1} :
            /\ (/\ \E c \in contacts' \ contacts : Leg(i) \in c
                /\ ~\E c \in contacts : Leg(i) \in c) => ground_contact'[i]
            /\ ground_contact[i] /\ ~ground_contact'[i] =>
                  \E c \in contacts \ contacts' : Leg(i) \in c /\ ~Fatal(c)]_vars

\* C4 (amended): leg i's flag becomes true at a contact-begin that involves
\* leg i and neither water, lander nor a container; it becomes false at
\* every contact-end that involves leg i; nothing else changes it within an
\* episode, in particular no event of the other leg.
GroundContactToggling ==
    [][built' = built =>
         \A i \in {0, 1} :
            ground_contact'[i] =
               IF \E c \in contacts' \ contacts : Leg(i) \in c /\ ~Fatal(c)
               THEN TRUE
               ELSE IF \E c \in contacts \ contacts' : Leg(i) \in c
               THEN FALSE
               ELSE ground_contact[i]]_vars

\* C4 witness: leg 0 still stands on the deck, its flag cleared by the end
\* of its contact with a container, while leg 1's flag is set
FlagClearedByOtherContact ==
    /\ Contact("leg0", "ship") \in contacts
    /\ Contact("leg0", "container0") \notin contacts
    /\ ~ground_contact[0]
    /\ ground_contact[1]

\* C5: every reward step() returns is in [-1, 1].
RewardBound ==
    result.returned => result.reward >= -RewardScale /\ result.reward <= RewardScale

\* C5 witness: a terminal tick with the thruster firing, whose reward
\* -fuelcost - 1 is clipped to -1
RewardClipped ==
    /\ pc = "idle" /\ result.returned /\ result.done
    /\ force_dir # 0 /\ TerminalTerm(phys) = -RewardScale
    /\ result.reward = -RewardScale

\* C6: the spawn of the first reset() after _seed(s) is a function of s:
\* whenever the generator seeded with s has served exactly one reset, the
\* spawn is the one the first such reset produced.
SeedDeterminesSpawn ==
    (/\ pc # "init"
     /\ np_random.seed \in Seeds
     /\ np_random.pos = 1
     /\ seedlog[np_random.seed] # <<>>) => spawn = seedlog[np_random.seed][1]

\* C7: in continuous mode one tick moves gimbal by at most 0.15 / FPS and
\* throttle by at most 0.5 / FPS.
ActionClamped ==
    [][TickBegins /\ continuous =>
          /\ Abs(gimbal' - gimbal) <= (15 * GimbalScale) \div (100 * FPS)
          /\ Abs(throttle' - throttle) <= ThrottleScale \div (2 * FPS)]_vars

\* C8: in discrete mode no tick is run for an index outside 0..6.
InvalidDiscreteRejected ==
    ~(~continuous /\ call = "step" /\ pc = "world" /\ action \notin 0 .. 6)

\* C9: right after reset() the world holds the bodies and joints of the
\* scene just built and no others, and that scene's contact listener; at all
\* times a joint's bodies exist, and a leg body has its two joints.
SceneTeardown ==
    /\ (call = "reset" /\ pc = "idle") =>
          /\ world.bodies = {Body(built, r) : r \in StaticRoles \cup DynamicRoles}
          /\ world.joints =
                {[kind |-> k, bodyA |-> Body(built, "lander"), bodyB |-> Body(built, l)] :
                    k \in {"revolute", "distance"}, l \in {"leg0", "leg1"}}
          /\ world.contactListener = built
          /\ \A c \in contacts : c \subseteq world.bodies
    /\ \A j \in world.joints : j.bodyA \in world.bodies /\ j.bodyB \in world.bodies
    /\ \A b \in world.bodies :
          b.role \in {"leg0", "leg1"} =>
             Cardinality({j \in world.joints : j.bodyB = b}) = 2

\* C9 witness: a reset() that replaced an earlier scene has returned
SecondSceneBuilt == call = "reset" /\ pc = "idle" /\ built = 2

\* the action commands a control thruster: lines 406-409, 419-422
CommandsThruster(cont, a) ==
    IF cont THEN 2 * a[3] > ActDen \/ 2 * a[3] < -ActDen ELSE a \in {4, 5}

\* C10: once the first tick has begun, gimbal is within +-gimbal_threshold,
\* throttle within [0, 1], force_dir in {-1, 0, 1} and 0 unless the action
\* commands a thruster, power is 0 at throttle 0 and min_throttle +
\* throttle * (1 - min_throttle) otherwise, never in (0, min_throttle).
ControlBounds ==
    pc # "init" =>
        /\ gimbal >= -gimbal_threshold /\ gimbal <= gimbal_threshold
        /\ throttle >= 0 /\ throttle <= ThrottleScale
        /\ force_dir \in {-1, 0, 1}
        /\ ~CommandsThruster(continuous, action) => force_dir = 0
        /\ throttle = 0 => power = 0
        /\ throttle # 0 =>
              power * ThrottleScale =
                 min_throttle * ThrottleScale + throttle * (PowerScale - min_throttle)
        /\ ~(power > 0 /\ power < min_throttle)

\* C10 witness: a step() that would have taken gimbal and throttle past
\* their upper bounds has returned
ControlsAtBounds ==
    /\ pc = "idle" /\ call = "step" /\ continuous
    /\ action[1] > 2 * gimbal_threshold
    /\ gimbal = gimbal_threshold /\ throttle = ThrottleScale
    /\ power = PowerScale /\ force_dir = 1

\* the reward of a tick that returns done = false, given the stored shaping
\* `ps` it subtracts: lines 473, 485-486, 497-498, 500
NonTerminalReward(ps, p, gc, fd) ==
    ClipReward(-FuelCost(fd)
               + (IF ps.isNone THEN 0 ELSE ShapingValue(p, gc) - ps.value)
               - (IF GroundContact(gc) THEN 0 ELSE RewardScale \div (4 * FPS)))

TerminationAbsorbing ==
    [][TickEnds /\ hist.done => result'.done]_vars

====
